---- MODULE Spec2Model ----
(***************************************************************************)
(* glab-ci-tools: the interactive navigation loop over `glab ci`.          *)
(*                                                                         *)
(* Two versions of the entry point are modelled:                           *)
(*   Spec       the looped version, src/unnamed/part_000                   *)
(*   SpecIndex  the first version,  src/index.js                           *)
(* Both share the variables below.  One action is one callback of the      *)
(* Node.js event loop (an exec callback, an answered or rejected prompt,   *)
(* a child's 'exit' event) together with the synchronous code and the      *)
(* promise continuations that run before the next event.                   *)
(***************************************************************************)
EXTENDS Integers, Sequences, FiniteSets

VARIABLES
    pc,            \* where the navigation is suspended
    debug,         \* process.argv.includes("--debug")
    pipelines,     \* result of the most recent execGlabCiList
    refMaxLength,  \* main's refMaxLength, computed from that result
    selected,      \* value the most recent selectPipeline prompt returned
    pipelineSha,   \* main's pipelineSha
    actionSha,     \* argument of the current selectPipelineAction call
    jobs,          \* pipelineDetails.jobs of the most recent execGlabCiGet
    jobId,         \* value the most recent job prompt returned
    prompts,       \* select() prompts currently open
    attached,      \* children spawned with stdio: "inherit" and still alive
    error,         \* error delivered to main's catch
    uncaught,      \* exception or rejection that reached no handler
    failedCmd,     \* exec command that reported an error or malformed output
    abortedAt,     \* prompt that was rejected
    out,           \* diagnostics written to the terminal
    printed,       \* console.log(glabCiTrigger) calls
    exited,        \* the host process has ended
    exitCode,      \* its exit code, once exited
    quit,          \* process.exit() was called for the Quit choice
    listCalls, backs, getCalls, lastGet, triggerChoices, jobSelections,
    trigExecs, lastTrig, traceSpawns, traceExits, viewSpawns, viewExits

nav      == <<pc, pipelines, selected, pipelineSha, actionSha, jobs, jobId>>
term     == <<prompts, attached>>
fail     == <<error, uncaught, failedCmd, abortedAt>>
proc     == <<out, printed, exited, exitCode, quit>>
listCtr  == <<listCalls, backs>>
trigCtr  == <<getCalls, lastGet, triggerChoices, jobSelections, trigExecs,
              lastTrig, traceSpawns, traceExits>>
viewCtr  == <<viewSpawns, viewExits>>
vars     == <<debug, refMaxLength, nav, term, fail, proc, listCtr, trigCtr, viewCtr>>

(***************************************************************************)
(* Bounds of the model.                                                    *)
(***************************************************************************)
MaxBacks == 2
MaxViews == 2
MaxTriggers == 2

(***************************************************************************)
(* Program constants.                                                      *)
(***************************************************************************)
StatusWidth == 9
NameWidth == 20

NoSha == "none"
PromiseSha == "[object Promise]"

(***************************************************************************)
(* Data the provider may return.  A pipeline is its sha, the length of its *)
(* ref and the length of its status; a job is its id, the length of its    *)
(* name and its status.                                                    *)
(***************************************************************************)
PMain == [sha |-> "a", refLen |-> 4,  statusLen |-> 7]
PLong == [sha |-> "b", refLen |-> 22, statusLen |-> 6]
PWait == [sha |-> "c", refLen |-> 3,  statusLen |-> 20]

Listings == { <<>>, <<PMain>>, <<PMain, PLong>>, <<PLong, PWait>> }

J7    == [id |-> 7,  nameLen |-> 5,  status |-> "manual"]
J42   == [id |-> 42, nameLen |-> 12, status |-> "created"]
JWide == [id |-> 43, nameLen |-> 24, status |-> "success"]

JobLists == { <<>>, <<J7>>, <<J7, J42>>, <<J7, JWide>> }

KnownJobStatus == {"running", "success", "failed", "canceled", "manual"}

ExitCodes == {0, 1}

(***************************************************************************)
(* Pure helpers.                                                           *)
(***************************************************************************)
Max(a, b) == IF a >= b THEN a ELSE b

\* Mutant of RefMaxLength: the reduce is dropped and the first row decides.
RefMaxLengthFirst(ps) == IF ps = <<>> THEN 0 ELSE ps[1].refLen

RECURSIVE RefMaxLength(_)
RefMaxLength(ps) ==
    IF ps = <<>> THEN 0
    ELSE Max(RefMaxLength(SubSeq(ps, 1, Len(ps) - 1)), ps[Len(ps)].refLen)

\* String.prototype.repeat throws a RangeError on a negative count.
RepeatThrows(n) == n < 0

FormatPipelineThrows(p, maxLen) ==
    \/ RepeatThrows(StatusWidth - p.statusLen)
    \/ RepeatThrows(maxLen - p.refLen)

GetPipelineChoicesThrows(ps) ==
    \E i \in 1..Len(ps) : FormatPipelineThrows(ps[i], RefMaxLength(ps))

GetJobChoicesThrows(js) ==
    \E i \in 1..Len(js) : RepeatThrows(NameWidth - js[i].nameLen)

\* formatPipeline's pad after the ref, and the offset of the age suffix
\* " (time)" from the start of the ref: ref, a space, the pad, a space.
PadCount(p, maxLen) == maxLen - p.refLen

SuffixOffset(p, maxLen) == p.refLen + 1 + PadCount(p, maxLen) + 1

\* The callback of exec in execGlabCiList / execGlabCiGet: reject(error)
\* does not return, so JSON.parse(stdout) runs in every case, and a throw
\* inside the callback is outside the promise executor.
ExecJsonOutcome(err, parses) ==
    IF ~parses THEN "throw"
    ELSE IF err THEN "reject"
    ELSE "resolve"

Viewer(sha) == [kind |-> "view", sha |-> sha, job |-> 0]
Tracer(job) == [kind |-> "trace", sha |-> NoSha, job |-> job]

(***************************************************************************)
(* Ways the host process ends.                                             *)
(***************************************************************************)
\* An exception thrown in an event callback, or an unhandled rejection:
\* Node prints it and exits with code 1.
Crash(kind) ==
    /\ pc' = "crashed"
    /\ uncaught' = kind
    /\ out' = out \cup {"uncaughtTrace"}
    /\ exited' = TRUE
    /\ exitCode' = 1
    /\ prompts' = {}

\* main has returned: the process ends with code 0 once nothing is pending.
Drain(children) ==
    IF children = {}
    THEN exited' = TRUE /\ exitCode' = 0
    ELSE UNCHANGED <<exited, exitCode>>

(***************************************************************************)
(* The looped version: src/unnamed/part_000.                               *)
(***************************************************************************)
Init ==
    /\ pc = "list"
    /\ debug \in BOOLEAN
    /\ pipelines = <<>>
    /\ refMaxLength = 0
    /\ selected = NoSha
    /\ pipelineSha = NoSha
    /\ actionSha = NoSha
    /\ jobs = <<>>
    /\ jobId = 0
    /\ prompts = {}
    /\ attached = {}
    /\ error = "none"
    /\ uncaught = "none"
    /\ failedCmd = "none"
    /\ abortedAt = "none"
    /\ out = {}
    /\ printed = 0
    /\ exited = FALSE
    /\ exitCode = 0
    /\ quit = FALSE
    /\ listCalls = 1
    /\ backs = 0
    /\ getCalls = 0
    /\ lastGet = NoSha
    /\ triggerChoices = 0
    /\ jobSelections = 0
    /\ trigExecs = 0
    /\ lastTrig = 0
    /\ traceSpawns = 0
    /\ traceExits = 0
    /\ viewSpawns = 0
    /\ viewExits = 0

\* Opening the action menu: selectPipelineAction(pipelineSha) up to its
\* first await.
OpenActionMenu(sha) ==
    /\ actionSha' = sha
    /\ prompts' = {"actionMenu"}
    /\ pc' = "actionMenu"

\* The exec callback of execGlabCiList and main up to selectPipeline.
ListDone(err, parses, listing) ==
    /\ ~exited /\ pc = "list"
    /\ LET o == ExecJsonOutcome(err, parses) IN
       /\ refMaxLength' = IF o = "resolve" THEN RefMaxLength(listing) ELSE refMaxLength
       /\ failedCmd' = IF err \/ ~parses THEN "list" ELSE failedCmd
       /\ CASE o = "throw" ->
                 /\ Crash("SyntaxError")
                 /\ UNCHANGED <<pipelines, error>>
            [] o = "reject" ->
                 /\ pc' = "caught"
                 /\ error' = "ExecError"
                 /\ UNCHANGED <<pipelines, prompts, uncaught, out, exited, exitCode>>
            [] o = "resolve" ->
                 /\ pipelines' = listing
                 /\ IF GetPipelineChoicesThrows(listing)
                    THEN /\ pc' = "caught"
                         /\ error' = "RangeError"
                         /\ UNCHANGED prompts
                    ELSE /\ pc' = "selectPipeline"
                         /\ prompts' = {"selectPipeline"}
                         /\ UNCHANGED error
                 /\ UNCHANGED <<uncaught, out, exited, exitCode>>
    /\ UNCHANGED <<debug, selected, pipelineSha, actionSha, jobs, jobId, attached,
                   abortedAt, printed, quit, listCtr, trigCtr, viewCtr>>

\* The pipeline prompt is answered with the value of one of its choices.
SelectPipeline(i) ==
    /\ ~exited /\ pc = "selectPipeline"
    /\ i \in 1..Len(pipelines)
    /\ selected' = pipelines[i].sha
    /\ pipelineSha' = pipelines[i].sha
    /\ OpenActionMenu(pipelines[i].sha)
    /\ UNCHANGED <<debug, refMaxLength, pipelines, jobs, jobId, attached, fail, proc,
                   listCtr, trigCtr, viewCtr>>

\* An open prompt is rejected (the operator aborts it): the rejection
\* travels up the awaits to main's catch.
PromptAbort ==
    /\ ~exited /\ pc \in {"selectPipeline", "actionMenu", "selectJob"}
    /\ abortedAt' = pc
    /\ error' = "ExitPromptError"
    /\ prompts' = {}
    /\ pc' = "caught"
    /\ UNCHANGED <<debug, refMaxLength, pipelines, selected, pipelineSha, actionSha, jobs, jobId,
                   attached, uncaught, failedCmd, proc, listCtr, trigCtr, viewCtr>>

\* Mutant of ChooseView: the viewer is not awaited, the menu re-opens at once.
ChooseViewNoAwait(ok) ==
    /\ ~exited /\ pc = "actionMenu"
    /\ viewSpawns < MaxViews
    /\ viewSpawns' = viewSpawns + 1
    /\ IF ok
       THEN /\ attached' = attached \cup {Viewer(actionSha)}
            /\ prompts' = {"actionMenu"}
            /\ pc' = "actionMenu"
            /\ UNCHANGED <<uncaught, out, exited, exitCode>>
       ELSE /\ Crash("SpawnError")
            /\ UNCHANGED attached
    /\ UNCHANGED <<debug, refMaxLength, pipelines, selected, pipelineSha, actionSha, jobs, jobId,
                   error, failedCmd, abortedAt, printed, quit, listCtr, trigCtr,
                   viewExits>>

\* "View pipeline": execViewPipeline spawns the viewer.  A failed spawn
\* emits 'error' on a child that has no 'error' listener.
ChooseView(ok) ==
    /\ ~exited /\ pc = "actionMenu"
    /\ viewSpawns < MaxViews
    /\ viewSpawns' = viewSpawns + 1
    /\ IF ok
       THEN /\ attached' = attached \cup {Viewer(actionSha)}
            /\ prompts' = {}
            /\ pc' = "view"
            /\ UNCHANGED <<uncaught, out, exited, exitCode>>
       ELSE /\ Crash("SpawnError")
            /\ UNCHANGED attached
    /\ UNCHANGED <<debug, refMaxLength, pipelines, selected, pipelineSha, actionSha, jobs, jobId,
                   error, failedCmd, abortedAt, printed, quit, listCtr, trigCtr,
                   viewExits>>

\* Mutant of ViewExit: the view bubbles up as "back" and the outer loop
\* lists again.
ViewExitRelists ==
    /\ ~exited /\ pc = "view"
    /\ \E v \in attached :
         /\ v.kind = "view"
         /\ attached' = attached \ {v}
    /\ viewExits' = viewExits + 1
    /\ listCalls' = listCalls + 1
    /\ pc' = "list"
    /\ UNCHANGED <<debug, refMaxLength, pipelines, selected, pipelineSha, actionSha, jobs, jobId,
                   prompts, fail, proc, backs, trigCtr, viewSpawns>>

\* The viewer's 'exit' event: resolve(), return "selectAction", continue.
ViewExit ==
    /\ ~exited /\ pc = "view"
    /\ \E v \in attached :
         /\ v.kind = "view"
         /\ attached' = attached \ {v}
    /\ viewExits' = viewExits + 1
    /\ actionSha' = pipelineSha
    /\ prompts' = (prompts \cup {"actionMenu"})
    /\ pc' = "actionMenu"
    /\ UNCHANGED <<debug, refMaxLength, pipelines, selected, pipelineSha, jobs, jobId, fail, proc,
                   listCtr, trigCtr, viewSpawns>>

\* "Trigger job": execGlabCiGet(pipelineSha) is issued.
ChooseTrigger ==
    /\ ~exited /\ pc = "actionMenu"
    /\ triggerChoices < MaxTriggers
    /\ triggerChoices' = triggerChoices + 1
    /\ getCalls' = getCalls + 1
    /\ lastGet' = actionSha
    /\ prompts' = {}
    /\ pc' = "get"
    /\ UNCHANGED <<debug, refMaxLength, pipelines, selected, pipelineSha, actionSha, jobs, jobId,
                   attached, fail, proc, listCtr, jobSelections, trigExecs, lastTrig,
                   traceSpawns, traceExits, viewCtr>>

\* The exec callback of execGlabCiGet and selectPipelineAction up to the
\* job prompt.
GetDone(err, parses, js) ==
    /\ ~exited /\ pc = "get"
    /\ LET o == ExecJsonOutcome(err, parses) IN
       /\ failedCmd' = IF err \/ ~parses THEN "get" ELSE failedCmd
       /\ CASE o = "throw" ->
                 /\ Crash("SyntaxError")
                 /\ UNCHANGED <<jobs, error>>
            [] o = "reject" ->
                 /\ pc' = "caught"
                 /\ error' = "ExecError"
                 /\ UNCHANGED <<jobs, prompts, uncaught, out, exited, exitCode>>
            [] o = "resolve" ->
                 /\ jobs' = js
                 /\ IF GetJobChoicesThrows(js)
                    THEN /\ pc' = "caught"
                         /\ error' = "RangeError"
                         /\ UNCHANGED prompts
                    ELSE /\ pc' = "selectJob"
                         /\ prompts' = {"selectJob"}
                         /\ UNCHANGED error
                 /\ UNCHANGED <<uncaught, out, exited, exitCode>>
    /\ UNCHANGED <<debug, refMaxLength, pipelines, selected, pipelineSha, actionSha, jobId, attached,
                   abortedAt, printed, quit, listCtr, trigCtr, viewCtr>>

\* The job prompt is answered: execGlabCiTrigger(jobId) issues the exec.
SelectJob(i) ==
    /\ ~exited /\ pc = "selectJob"
    /\ i \in 1..Len(jobs)
    /\ jobId' = jobs[i].id
    /\ jobSelections' = jobSelections + 1
    /\ trigExecs' = trigExecs + 1
    /\ lastTrig' = jobs[i].id
    /\ prompts' = {}
    /\ pc' = "trigger"
    /\ UNCHANGED <<debug, refMaxLength, pipelines, selected, pipelineSha, actionSha, jobs, attached,
                   fail, proc, listCtr, getCalls, lastGet, triggerChoices,
                   traceSpawns, traceExits, viewCtr>>

\* Mutant of TriggerDone: the promise is resolved in the exec callback, so
\* the output is printed while the trace is still running.
TriggerDoneNoAwait(err, ok) ==
    /\ ~exited /\ pc = "trigger"
    /\ traceSpawns' = traceSpawns + 1
    /\ failedCmd' = IF err THEN "trigger" ELSE failedCmd
    /\ IF ok
       THEN /\ attached' = attached \cup {Tracer(lastTrig)}
            /\ pc' = IF err THEN "caught" ELSE "actionMenu"
            /\ prompts' = IF err THEN prompts ELSE {"actionMenu"}
            /\ printed' = IF err THEN printed ELSE printed + 1
            /\ error' = IF err THEN "ExecError" ELSE error
            /\ UNCHANGED <<uncaught, out, exited, exitCode>>
       ELSE /\ Crash("SpawnError")
            /\ UNCHANGED <<attached, error, printed>>
    /\ UNCHANGED <<debug, refMaxLength, pipelines, selected, pipelineSha, actionSha, jobs, jobId,
                   abortedAt, quit, listCtr, getCalls, lastGet,
                   triggerChoices, jobSelections, trigExecs, lastTrig, traceExits,
                   viewCtr>>

\* The exec callback of execGlabCiTrigger: reject(error) does not return,
\* so the trace is spawned in every case.
TriggerDone(err, ok) ==
    /\ ~exited /\ pc = "trigger"
    /\ traceSpawns' = traceSpawns + 1
    /\ failedCmd' = IF err THEN "trigger" ELSE failedCmd
    /\ IF ok
       THEN /\ attached' = attached \cup {Tracer(lastTrig)}
            /\ pc' = IF err THEN "caught" ELSE "trace"
            /\ error' = IF err THEN "ExecError" ELSE error
            /\ UNCHANGED <<prompts, uncaught, out, exited, exitCode>>
       ELSE /\ Crash("SpawnError")
            /\ UNCHANGED <<attached, error>>
    /\ UNCHANGED <<debug, refMaxLength, pipelines, selected, pipelineSha, actionSha, jobs, jobId,
                   abortedAt, printed, quit, listCtr, getCalls, lastGet,
                   triggerChoices, jobSelections, trigExecs, lastTrig, traceExits,
                   viewCtr>>

\* Mutant of TraceExit: after the trace the navigation goes back to the
\* pipeline listing.
TraceExitRelists ==
    /\ ~exited /\ pc \in {"trace", "done"}
    /\ \E t \in attached :
         /\ t.kind = "trace"
         /\ attached' = attached \ {t}
         /\ IF pc = "trace"
            THEN /\ printed' = printed + 1
                 /\ listCalls' = listCalls + 1
                 /\ pc' = "list"
                 /\ UNCHANGED <<exited, exitCode>>
            ELSE /\ Drain(attached \ {t})
                 /\ UNCHANGED <<printed, listCalls, pc>>
    /\ traceExits' = traceExits + 1
    /\ UNCHANGED <<debug, refMaxLength, pipelines, selected, pipelineSha, actionSha, jobs, jobId,
                   prompts, fail, out, quit, backs, getCalls, lastGet, triggerChoices,
                   jobSelections, trigExecs, lastTrig, traceSpawns, viewCtr>>

\* Mutant of TraceExit: the exit handler ends the process, as the handler
\* of src/index.js does.
TraceExitProcessExit ==
    /\ ~exited /\ pc \in {"trace", "done"}
    /\ \E t \in attached :
         /\ t.kind = "trace"
         /\ attached' = attached \ {t}
    /\ traceExits' = traceExits + 1
    /\ exited' = TRUE
    /\ exitCode' = 0
    /\ prompts' = {}
    /\ pc' = IF pc = "trace" THEN "exit" ELSE pc
    /\ UNCHANGED <<debug, refMaxLength, pipelines, selected, pipelineSha, actionSha,
                   jobs, jobId, fail, out, printed, quit, listCtr, getCalls, lastGet,
                   triggerChoices, jobSelections, trigExecs, lastTrig, traceSpawns,
                   viewCtr>>

\* The tracer's 'exit' event: resolve(stdout); when selectPipelineAction
\* is still awaiting it, the output is printed and the menu re-opened.
TraceExit ==
    /\ ~exited /\ pc \in {"trace", "done"}
    /\ \E t \in attached :
         /\ t.kind = "trace"
         /\ attached' = attached \ {t}
         /\ IF pc = "trace"
            THEN /\ printed' = printed + 1
                 /\ actionSha' = pipelineSha
                 /\ prompts' = (prompts \cup {"actionMenu"})
                 /\ pc' = "actionMenu"
                 /\ UNCHANGED <<exited, exitCode>>
            ELSE /\ Drain(attached \ {t})
                 /\ UNCHANGED <<printed, actionSha, prompts, pc>>
    /\ traceExits' = traceExits + 1
    /\ UNCHANGED <<debug, refMaxLength, pipelines, selected, pipelineSha, jobs, jobId, fail, out, quit,
                   listCtr, getCalls, lastGet, triggerChoices, jobSelections,
                   trigExecs, lastTrig, traceSpawns, viewCtr>>

\* Mutant of ChooseBack: the previous listing is shown again without a new
\* list call.
ChooseBackCached ==
    /\ ~exited /\ pc = "actionMenu"
    /\ backs < MaxBacks
    /\ backs' = backs + 1
    /\ prompts' = {"selectPipeline"}
    /\ pc' = "selectPipeline"
    /\ UNCHANGED <<debug, refMaxLength, pipelines, selected, pipelineSha, actionSha, jobs, jobId,
                   attached, fail, proc, listCalls, trigCtr, viewCtr>>

\* "Back": break out of the inner loop; the outer loop lists again.
ChooseBack ==
    /\ ~exited /\ pc = "actionMenu"
    /\ backs < MaxBacks
    /\ backs' = backs + 1
    /\ listCalls' = listCalls + 1
    /\ prompts' = {}
    /\ pc' = "list"
    /\ UNCHANGED <<debug, refMaxLength, pipelines, selected, pipelineSha, actionSha, jobs, jobId,
                   attached, fail, proc, trigCtr, viewCtr>>

\* "Quit": process.exit().
ChooseQuit ==
    /\ ~exited /\ pc = "actionMenu"
    /\ quit' = TRUE
    /\ exited' = TRUE
    /\ exitCode' = 0
    /\ prompts' = {}
    /\ pc' = "exit"
    /\ UNCHANGED <<debug, refMaxLength, pipelines, selected, pipelineSha, actionSha, jobs, jobId,
                   attached, fail, out, printed, listCtr, trigCtr, viewCtr>>

\* main's catch block, then main returns.
Catch ==
    /\ ~exited /\ pc = "caught"
    /\ out' = IF debug THEN out \cup {"caughtError"} ELSE out
    /\ pc' = "done"
    /\ Drain(attached)
    /\ UNCHANGED <<debug, refMaxLength, pipelines, selected, pipelineSha, actionSha, jobs, jobId,
                   term, fail, printed, quit, listCtr, trigCtr, viewCtr>>

Next ==
    \/ \E err \in BOOLEAN, parses \in BOOLEAN, listing \in Listings :
         ListDone(err, parses, listing)
    \/ \E i \in 1..2 : SelectPipeline(i)
    \/ PromptAbort
    \/ \E ok \in BOOLEAN : ChooseView(ok)
    \/ ViewExit
    \/ ChooseTrigger
    \/ \E err \in BOOLEAN, parses \in BOOLEAN, js \in JobLists :
         GetDone(err, parses, js)
    \/ \E i \in 1..2 : SelectJob(i)
    \/ \E err \in BOOLEAN, ok \in BOOLEAN : TriggerDone(err, ok)
    \/ TraceExit
    \/ ChooseBack
    \/ ChooseQuit
    \/ Catch

Spec == Init /\ [][Next]_vars

(***************************************************************************)
(* The first version: src/index.js.  selectPipeline and                    *)
(* selectPipelineAction are called without await, so main's pipelineSha is *)
(* the pending promise and nothing of the navigation runs inside main's    *)
(* try block after the listing.                                            *)
(***************************************************************************)
InitIndex ==
    /\ Init
    /\ debug = FALSE

\* getJobChoices of src/index.js has no fallback colour: statusColor is
\* undefined for a status outside the table and calling it throws.
IndexGetJobChoicesThrows(js) ==
    \E i \in 1..Len(js) :
        \/ js[i].status \notin KnownJobStatus
        \/ RepeatThrows(NameWidth - js[i].nameLen)

\* formatPipeline of src/index.js pads the ref only.
IndexGetPipelineChoicesThrows(ps) ==
    \E i \in 1..Len(ps) : RepeatThrows(RefMaxLength(ps) - ps[i].refLen)

\* The exec callback of execGlabCiList and the rest of main: both prompts
\* are opened in the same turn.
IndexListDone(err, parses, listing) ==
    /\ ~exited /\ pc = "list"
    /\ LET o == ExecJsonOutcome(err, parses) IN
       /\ refMaxLength' = IF o = "resolve" THEN RefMaxLength(listing) ELSE refMaxLength
       /\ failedCmd' = IF err \/ ~parses THEN "list" ELSE failedCmd
       /\ CASE o = "throw" ->
                 /\ Crash("SyntaxError")
                 /\ UNCHANGED <<pipelines, error, pipelineSha, actionSha>>
            [] o = "reject" ->
                 /\ pc' = "caught"
                 /\ error' = "ExecError"
                 /\ UNCHANGED <<pipelines, prompts, uncaught, out, exited, exitCode,
                                pipelineSha, actionSha>>
            [] o = "resolve" ->
                 /\ pipelines' = listing
                 /\ IF IndexGetPipelineChoicesThrows(listing)
                    THEN /\ pc' = "caught"
                         /\ error' = "RangeError"
                         /\ UNCHANGED <<prompts, pipelineSha, actionSha>>
                    ELSE /\ pipelineSha' = PromiseSha
                         /\ actionSha' = PromiseSha
                         /\ prompts' = {"selectPipeline", "actionMenu"}
                         /\ pc' = "actionMenu"
                         /\ UNCHANGED error
                 /\ UNCHANGED <<uncaught, out, exited, exitCode>>
    /\ UNCHANGED <<debug, selected, jobs, jobId, attached, abortedAt, printed, quit,
                   listCtr, trigCtr, viewCtr>>

\* main's catch block: console.error(error), whatever the arguments.
IndexCatch ==
    /\ ~exited /\ pc = "caught"
    /\ out' = out \cup {"caughtError"}
    /\ pc' = "done"
    /\ Drain(attached)
    /\ UNCHANGED <<debug, refMaxLength, pipelines, selected, pipelineSha, actionSha, jobs, jobId,
                   term, fail, printed, quit, listCtr, trigCtr, viewCtr>>

\* The pipeline prompt is answered: its promise resolves, and no code
\* reads the value.
IndexSelectPipeline(i) ==
    /\ ~exited /\ "selectPipeline" \in prompts
    /\ i \in 1..Len(pipelines)
    /\ selected' = pipelines[i].sha
    /\ prompts' = prompts \ {"selectPipeline"}
    /\ UNCHANGED <<debug, refMaxLength, pc, pipelines, pipelineSha, actionSha, jobs, jobId,
                   attached, fail, proc, listCtr, trigCtr, viewCtr>>

\* An open prompt is rejected: no caller awaits it inside a try block.
IndexPromptAbort(p) ==
    /\ ~exited /\ p \in prompts
    /\ abortedAt' = p
    /\ Crash("UnhandledRejection")
    /\ UNCHANGED <<debug, refMaxLength, pipelines, selected, pipelineSha, actionSha, jobs, jobId,
                   attached, error, failedCmd, printed, quit, listCtr, trigCtr,
                   viewCtr>>

\* "View pipeline": execViewPipeline spawns the viewer and returns.
IndexChooseView(ok) ==
    /\ ~exited /\ pc = "actionMenu" /\ "actionMenu" \in prompts
    /\ viewSpawns < MaxViews
    /\ viewSpawns' = viewSpawns + 1
    /\ IF ok
       THEN /\ attached' = attached \cup {Viewer(actionSha)}
            /\ prompts' = prompts \ {"actionMenu"}
            /\ pc' = "view"
            /\ UNCHANGED <<uncaught, out, exited, exitCode>>
       ELSE /\ Crash("SpawnError")
            /\ UNCHANGED attached
    /\ UNCHANGED <<debug, refMaxLength, pipelines, selected, pipelineSha, actionSha, jobs, jobId,
                   error, failedCmd, abortedAt, printed, quit, listCtr, trigCtr,
                   viewExits>>

\* The viewer's 'exit' event calls selectPipelineAction(pipelineSha) again.
IndexViewExit ==
    /\ ~exited /\ pc = "view"
    /\ \E v \in attached :
         /\ v.kind = "view"
         /\ attached' = attached \ {v}
         /\ actionSha' = v.sha
    /\ viewExits' = viewExits + 1
    /\ prompts' = prompts \cup {"actionMenu"}
    /\ pc' = "actionMenu"
    /\ UNCHANGED <<debug, refMaxLength, pipelines, selected, pipelineSha, jobs, jobId, fail, proc,
                   listCtr, trigCtr, viewSpawns>>

\* "Trigger job": execGlabCiGet(pipelineSha) is issued.
IndexChooseTrigger ==
    /\ ~exited /\ pc = "actionMenu" /\ "actionMenu" \in prompts
    /\ triggerChoices < MaxTriggers
    /\ triggerChoices' = triggerChoices + 1
    /\ getCalls' = getCalls + 1
    /\ lastGet' = actionSha
    /\ prompts' = prompts \ {"actionMenu"}
    /\ pc' = "get"
    /\ UNCHANGED <<debug, refMaxLength, pipelines, selected, pipelineSha, actionSha, jobs, jobId,
                   attached, fail, proc, listCtr, jobSelections, trigExecs, lastTrig,
                   traceSpawns, traceExits, viewCtr>>

\* The exec callback of execGlabCiGet: a rejection of selectPipelineAction
\* has no handler.
IndexGetDone(err, parses, js) ==
    /\ ~exited /\ pc = "get"
    /\ LET o == ExecJsonOutcome(err, parses) IN
       /\ failedCmd' = IF err \/ ~parses THEN "get" ELSE failedCmd
       /\ CASE o = "throw" ->
                 /\ Crash("SyntaxError")
                 /\ UNCHANGED jobs
            [] o = "reject" ->
                 /\ Crash("UnhandledRejection")
                 /\ UNCHANGED jobs
            [] o = "resolve" ->
                 /\ jobs' = js
                 /\ IF IndexGetJobChoicesThrows(js)
                    THEN Crash("UnhandledRejection")
                    ELSE /\ pc' = "selectJob"
                         /\ prompts' = prompts \cup {"selectJob"}
                         /\ UNCHANGED <<uncaught, out, exited, exitCode>>
    /\ UNCHANGED <<debug, refMaxLength, pipelines, selected, pipelineSha, actionSha, jobId, attached,
                   error, abortedAt, printed, quit, listCtr, trigCtr, viewCtr>>

\* The job prompt is answered: execGlabCiTrigger(jobId) issues the exec.
IndexSelectJob(i) ==
    /\ ~exited /\ pc = "selectJob" /\ "selectJob" \in prompts
    /\ i \in 1..Len(jobs)
    /\ jobId' = jobs[i].id
    /\ jobSelections' = jobSelections + 1
    /\ trigExecs' = trigExecs + 1
    /\ lastTrig' = jobs[i].id
    /\ prompts' = prompts \ {"selectJob"}
    /\ pc' = "trigger"
    /\ UNCHANGED <<debug, refMaxLength, pipelines, selected, pipelineSha, actionSha, jobs, attached,
                   fail, proc, listCtr, getCalls, lastGet, triggerChoices,
                   traceSpawns, traceExits, viewCtr>>

\* The exec callback of execGlabCiTrigger: the trace is spawned in every
\* case; a rejection has no handler.
IndexTriggerDone(err, ok) ==
    /\ ~exited /\ pc = "trigger"
    /\ traceSpawns' = traceSpawns + 1
    /\ failedCmd' = IF err THEN "trigger" ELSE failedCmd
    /\ attached' = IF ok THEN attached \cup {Tracer(lastTrig)} ELSE attached
    /\ IF ok /\ ~err
       THEN /\ pc' = "trace"
            /\ UNCHANGED <<prompts, uncaught, out, exited, exitCode>>
       ELSE Crash(IF ok THEN "UnhandledRejection" ELSE "SpawnError")
    /\ UNCHANGED <<debug, refMaxLength, pipelines, selected, pipelineSha, actionSha, jobs, jobId,
                   error, abortedAt, printed, quit, listCtr, getCalls, lastGet,
                   triggerChoices, jobSelections, trigExecs, lastTrig, traceExits,
                   viewCtr>>

\* The tracer's 'exit' event: resolve(stdout); process.exit(code).
IndexTraceExit(code) ==
    /\ ~exited /\ pc = "trace"
    /\ \E t \in attached :
         /\ t.kind = "trace"
         /\ attached' = attached \ {t}
    /\ traceExits' = traceExits + 1
    /\ exited' = TRUE
    /\ exitCode' = code
    /\ prompts' = {}
    /\ pc' = "exit"
    /\ UNCHANGED <<debug, refMaxLength, pipelines, selected, pipelineSha, actionSha, jobs, jobId,
                   fail, out, printed, quit, listCtr, getCalls, lastGet,
                   triggerChoices, jobSelections, trigExecs, lastTrig, traceSpawns,
                   viewCtr>>

NextIndex ==
    \/ \E err \in BOOLEAN, parses \in BOOLEAN, listing \in Listings :
         IndexListDone(err, parses, listing)
    \/ IndexCatch
    \/ \E i \in 1..2 : IndexSelectPipeline(i)
    \/ \E p \in {"selectPipeline", "actionMenu", "selectJob"} : IndexPromptAbort(p)
    \/ \E ok \in BOOLEAN : IndexChooseView(ok)
    \/ IndexViewExit
    \/ IndexChooseTrigger
    \/ \E err \in BOOLEAN, parses \in BOOLEAN, js \in JobLists :
         IndexGetDone(err, parses, js)
    \/ \E i \in 1..2 : IndexSelectJob(i)
    \/ \E err \in BOOLEAN, ok \in BOOLEAN : IndexTriggerDone(err, ok)
    \/ \E code \in ExitCodes : IndexTraceExit(code)

SpecIndex == InitIndex /\ [][NextIndex]_vars

(***************************************************************************)
(* Properties of the looped version (checked under Spec).                  *)
(***************************************************************************)

\* C1: execGlabCiList is invoked once per entry into the pipeline listing:
\* once at start-up and once more for every Back, so a session that has
\* taken k Backs (and then Quit) has issued exactly k + 1 list calls.
C1_ListOncePerEntry == listCalls = backs + 1

\* Select the first pipeline, Back, select, Quit: two list calls, no detail
\* or trigger call, exit code 0.
C1_Witness ==
    /\ quit /\ exited /\ exitCode = 0
    /\ backs = 1 /\ listCalls = 2
    /\ getCalls = 0 /\ trigExecs = 0

\* C2: when the viewer started for revision r exits, the next prompt is
\* the action menu for the same r; no list call and no pipeline prompt
\* comes in between.
C2_ViewReturnsToSameMenu ==
    [][(pc = "view" /\ pc' # "view") =>
         /\ pc' = "actionMenu"
         /\ prompts' = {"actionMenu"}
         /\ \E v \in attached \ attached' :
                v.kind = "view" /\ v.sha = actionSha /\ actionSha' = v.sha
         /\ listCalls' = listCalls]_vars

C2_Witness ==
    /\ viewExits = 2
    /\ pc = "actionMenu"
    /\ actionSha = "b"

\* C3: every call execGlabCiTrigger(j) starts one trigger command and one
\* trace for j, the trace only once the trigger command has completed, and
\* the trigger's output is printed only after the trace has exited.
C3_TriggerThenTrace ==
    /\ trigExecs = jobSelections
    /\ traceSpawns = (IF pc = "trigger" THEN trigExecs - 1 ELSE trigExecs)
    /\ traceExits <= traceSpawns
    /\ printed <= traceExits
    /\ \A t \in attached : t.kind = "trace" => t.job = jobId /\ t.job = lastTrig
    /\ pc = "trace" => Tracer(jobId) \in attached /\ printed = traceSpawns - 1

C3_Witness ==
    /\ lastTrig = 42
    /\ trigExecs = 1 /\ traceSpawns = 1 /\ traceExits = 1 /\ printed = 1
    /\ pc = "actionMenu"

\* C4: each "Trigger job" choice for revision r followed by the selection
\* of job j issues one detail fetch for r and one trigger call for j, and
\* when the trace ends control is back at the action menu of the same r
\* with no list call in between.
C4_TriggerCycle ==
    /\ [](/\ getCalls = triggerChoices
          /\ trigExecs = jobSelections
          /\ trigExecs <= getCalls
          /\ pc \in {"get", "selectJob", "trigger", "trace"} =>
                 /\ lastGet = pipelineSha
                 /\ trigExecs = (IF pc \in {"get", "selectJob"}
                                 THEN getCalls - 1 ELSE getCalls)
          /\ pc \in {"trigger", "trace"} => lastTrig = jobId)
    /\ [][(pc = "trace" /\ pc' # "trace") =>
            /\ pc' = "actionMenu"
            /\ prompts' = {"actionMenu"}
            /\ actionSha' = lastGet
            /\ listCalls' = listCalls]_vars

C4_Witness ==
    /\ getCalls = 1 /\ trigExecs = 1 /\ lastTrig = 7 /\ lastGet = "a"
    /\ traceExits = 1
    /\ pc = "actionMenu" /\ actionSha = "a"
    /\ listCalls = 1

\* C5: at most one terminal-attached child is alive, and no prompt is open
\* while one is alive, on the success and on the failure paths.
C5_TerminalExclusive ==
    /\ Cardinality(attached) <= 1
    /\ attached # {} => prompts = {}

\* The failure path: the trigger command failed and its trace is running.
C5_Witness ==
    /\ failedCmd = "trigger"
    /\ error = "ExecError"
    /\ attached = {Tracer(7)}
    /\ pc = "done"

(***************************************************************************)
(* Statements the code does not meet.                                      *)
(***************************************************************************)

\* C6: never more than one selection prompt is open (checked under
\* SpecIndex, where main opens the action menu without awaiting the
\* pipeline prompt).
C6_OnePromptAtATime == Cardinality(prompts) <= 1

\* C7: a failed list, detail or trigger command, or malformed list/detail
\* output, reaches main's catch as a rejection and ends the session; it
\* never escapes as an uncaught exception.
C7_ProviderFailureCaught ==
    (failedCmd # "none" /\ uncaught # "SpawnError") =>
        /\ uncaught = "none"
        /\ pc \in {"caught", "done"}
        /\ error = "ExecError"

\* C8: without --debug no failure produces diagnostic output; with it the
\* caught error is printed before the process ends.
C8_QuietWithoutDebug ==
    /\ ~debug => out = {}
    /\ (debug /\ pc = "done") => "caughtError" \in out

\* C9: with --debug an error that ends the session gives a non-zero exit
\* code; exit code 0 comes only from Quit.
C9_ExitCodes ==
    /\ (exited /\ debug /\ error # "none") => exitCode # 0
    /\ (exited /\ exitCode = 0) => quit

\* C10: a prompt aborted at a nested level (action menu, job prompt) acts
\* like Back: navigation returns to the enclosing menu and the session
\* goes on.
C10_NestedAbortIsBack ==
    [][(abortedAt' # abortedAt /\ abortedAt' \in {"actionMenu", "selectJob"}) =>
         pc' \in {"list", "actionMenu"}]_vars

(***************************************************************************)
(* Attached children, process exit and the formatters.                     *)
(***************************************************************************)

\* C11: in every version the exit of an attached child (viewer or tracer),
\* whatever its code, is normal completion: navigation resumes at the
\* action menu and the host process does not end (checked under SpecIndex,
\* whose trace handler calls process.exit(code)).
C11_ChildExitIsNormal ==
    [][(\E c \in attached : c \notin attached') =>
         /\ ~exited'
         /\ pc' = "actionMenu"
         /\ "actionMenu" \in prompts']_vars

\* Spawns that neither run nor exited: the spawn failed.
FailedSpawns ==
    (viewSpawns + traceSpawns) - (viewExits + traceExits) - Cardinality(attached)

\* C12: an attached child that fails to spawn is delivered to main's catch
\* as an error; it neither hangs nor bypasses the handler.
C12_SpawnFailureCaught ==
    FailedSpawns > 0 =>
        /\ uncaught = "none"
        /\ error # "none"
        /\ pc \in {"caught", "done"}

\* C13: the program ends itself with process.exit only for Quit chosen in
\* the action menu, with exit code 0; no other choice or child exit calls
\* process.exit.
C13_ExitOnlyOnQuit ==
    /\ [](pc = "exit" => quit /\ exited /\ exitCode = 0)
    /\ [](quit => pc = "exit")
    /\ [][(pc' = "exit" /\ pc # "exit") =>
            pc = "actionMenu" /\ prompts = {"actionMenu"}]_vars

\* A pipeline selected, viewed, a job triggered and traced, Back taken,
\* and only then Quit.
C13_Witness ==
    /\ quit /\ pc = "exit" /\ exitCode = 0
    /\ viewExits = 1 /\ traceExits = 1 /\ printed = 1 /\ backs = 1

\* m is the maximum ref length of ps, and 0 for no rows.
IsMaxRefLength(m, ps) ==
    IF ps = <<>> THEN m = 0
    ELSE /\ \E i \in 1..Len(ps) : ps[i].refLen = m
         /\ \A i \in 1..Len(ps) : ps[i].refLen <= m

\* C14: refMaxLength is the maximum ref length of the current listing (0
\* for an empty one), recomputed at every list fetch; in every row the pad
\* is >= 0, ref length plus pad is refMaxLength, and the age suffix starts
\* at the same offset from the start of the ref.
C14_RefColumnAligned ==
    /\ IsMaxRefLength(refMaxLength, pipelines)
    /\ \A i \in 1..Len(pipelines) :
         /\ PadCount(pipelines[i], refMaxLength) >= 0
         /\ pipelines[i].refLen + PadCount(pipelines[i], refMaxLength) = refMaxLength
         /\ \A j \in 1..Len(pipelines) :
              SuffixOffset(pipelines[i], refMaxLength)
                = SuffixOffset(pipelines[j], refMaxLength)

\* A second listing, narrower than the first one ("b" was selected from a
\* listing whose widest ref has 22 characters).
C14_Witness ==
    /\ pc = "selectPipeline"
    /\ backs = 1 /\ selected = "b"
    /\ pipelines = <<PMain>>
    /\ refMaxLength = 4

\* C15: in every version of getJobChoices a job whose status is outside
\* the colour table gets a fallback colour and the formatter does not throw:
\* when the names fit, the job prompt opens (checked under SpecIndex).
C15_UnknownStatusFallback ==
    [][(/\ pc = "get"
        /\ failedCmd' = "none"
        /\ \E i \in 1..Len(jobs') : jobs'[i].status \notin KnownJobStatus
        /\ \A i \in 1..Len(jobs') : ~RepeatThrows(NameWidth - jobs'[i].nameLen))
       => pc' = "selectJob" /\ "selectJob" \in prompts']_vars

\* C16: no attached child is leaked: a failed trigger command starts no
\* trace, and when main's catch runs no attached child is alive.
C16_NoLeakedChild ==
    /\ (failedCmd = "trigger" /\ uncaught = "none") =>
           traceSpawns < trigExecs /\ attached = {}
    /\ pc = "caught" => attached = {}

Shas(ps) == { ps[i].sha : i \in 1..Len(ps) }

\* C17: in every version the action menu is entered only after the
\* pipeline prompt of the current listing has returned, and every viewer
\* and detail fetch is for the sha that prompt returned, a sha of the most
\* recent listing (checked under SpecIndex).
C17_MenuForSelectedSha ==
    pc \in {"actionMenu", "view", "get", "selectJob", "trigger", "trace"} =>
        /\ "selectPipeline" \notin prompts
        /\ selected \in Shas(pipelines)
        /\ actionSha = selected
        /\ \A v \in attached : v.kind = "view" => v.sha = selected
        /\ pc \in {"get", "selectJob", "trigger", "trace"} => lastGet = selected

\* C18: the fixed-width pads (20 - job.name.length, 9 -
\* pipeline.status.length) are never negative for a fetched record, so
\* formatting never throws and never ends the session.
C18_FormattersTotal ==
    /\ \A i \in 1..Len(pipelines) : StatusWidth - pipelines[i].statusLen >= 0
    /\ \A i \in 1..Len(jobs) : NameWidth - jobs[i].nameLen >= 0
    /\ error # "RangeError"

====
